---- MODULE Spec2Model ----
(***************************************************************************)
(* Model of the gossip download supervisor and sync-completion tracker of  *)
(* rapid-gossip-sync-server:                                               *)
(*   src/src/tracking.rs            download_gossip, connect_peer          *)
(*   src/processor/src/download.rs  download_gossip (older tracker)        *)
(*                                                                         *)
(* Three specifications share the variables:                               *)
(*   SpecConnect  startup of tracking.rs: the per-peer tasks, the JoinSet  *)
(*                aggregation and the zero-peers check;                    *)
(*   SpecTracker  the polling loop of both files with every tick on time;  *)
(*   SpecStall    the polling loop with ticks that may come late, so that  *)
(*                the stall window of the watchdog is exceeded.            *)
(***************************************************************************)
EXTENDS Integers, FiniteSets, Sequences, TLC

\* ---------------------------------------------------------------- bounds
MaxPeers == 3          \* configured peers: 0..MaxPeers
MaxLimit == 3          \* config::CONNECTED_PEER_ASSERTION_LIMIT: 0..MaxLimit
MaxTicks == 5          \* iterations of the polling loop (i)
MaxDeliveries == 3     \* bursts of messages the router handles in a run
MaxStalledDeliveries == 4  \* the same, in the runs with a stalled consumer
ChannelCapacity == 1   \* capacity of the completion channel (set by the caller)

\* ------------------------------------------------------ program constants
NewMessageThreshold == 20    \* tracking.rs:122
StallWindowSecs == 600       \* tracking.rs:152, download.rs:122
SleepSecs == 5               \* tracking.rs:112, download.rs:84
MillisPerSec == 1000         \* Duration::as_secs truncates to whole seconds

VARIABLES
    \* configuration (config::ln_peers, config::CONNECTED_PEER_ASSERTION_LIMIT)
    peers,                    \* the set of configured peers, 1..N
    assertion_limit,
    first_outcome,            \* what each peer's first connection attempt will do
    \* download_gossip, startup
    main_pc,                  \* position of download_gossip
    connected_peer_count,
    peer_warning,             \* the log_warn of tracking.rs:74 was written
    handles,                  \* JoinSet: the state of each connect_peer task
    \* connect_peer's spawned per-peer task
    task_pc,
    is_first_iteration,
    report,                   \* the mpsc::channel::<bool>(1) of each connect_peer
    reported,                 \* booleans each per-peer task has sent on its channel
    gap,                      \* what came before the connect_outbound a task is in
    \* the tracker loop
    variant,                  \* which file's tracker runs: "tracking" or "download"
    counter,                  \* GossipCounter behind router.counter
    read_lock,                \* the tracker holds the read lock of router.counter
    deliveries,               \* bursts handled by the router so far
    previous_announcement_count,
    previous_update_count,
    is_caught_up_with_gossip,
    was_previously_caught_up_with_gossip,
    new_message_count,
    i,
    now,                      \* the monotonic clock, in milliseconds
    latest_new_gossip_time,   \* tracking.rs
    latest_catch_up_time,     \* download.rs
    needs_to_notify_persister,
    stall_warning,            \* the watchdog warning was written on the last tick
    \* the completion channel
    chan_len,
    chan_closed,
    \* history of the run, by iteration number
    primed_ticks,             \* iterations that began with both previous counts > 0
    quiet_ticks,              \* iterations whose delta was 0
    high_ticks,               \* iterations whose delta was >= NewMessageThreshold
    caught_ticks,             \* iterations on which is_caught_up_with_gossip was true
    warn_ticks,               \* iterations that wrote the watchdog warning
    sent_ticks,               \* iterations that called send for the completion event
    failed_ticks,             \* iterations whose send of the completion event failed
    delta_sum                 \* the sum of new_message_count over all iterations

configVars == <<peers, assertion_limit, first_outcome>>
startVars == <<main_pc, connected_peer_count, peer_warning, handles>>
peerVars == <<task_pc, is_first_iteration, report, reported, gap>>
trackerVars == <<variant, previous_announcement_count, previous_update_count,
                 is_caught_up_with_gossip, was_previously_caught_up_with_gossip,
                 new_message_count, i, now, latest_new_gossip_time,
                 latest_catch_up_time, needs_to_notify_persister, stall_warning>>
routerVars == <<counter, read_lock, deliveries>>
chanVars == <<chan_len, chan_closed>>
histVars == <<primed_ticks, quiet_ticks, high_ticks, caught_ticks, warn_ticks, sent_ticks,
              failed_ticks, delta_sum>>
vars == <<configVars, startVars, peerVars, trackerVars, routerVars, chanVars, histVars>>

\* The first attempt of a peer: connect_outbound returns Some (the peer is
\* connected), returns None (refused, reset, timeout), or the task dies before it
\* reports (join_next then yields Err).
FirstOutcomes == {"connected", "refused", "task_failed"}

\* The per-peer tasks run the same code and their results arrive in any order, so
\* which peer gets which outcome does not matter: the outcomes are listed once
\* per multiset, in this order along the peer list.
OutcomeRank(o) == CASE o = "connected" -> 0 [] o = "refused" -> 1 [] OTHER -> 2
OutcomeLists(ps) ==
    {f \in [ps -> FirstOutcomes] :
        \A p \in ps, q \in ps : p <= q => OutcomeRank(f[p]) <= OutcomeRank(f[q])}

\* ------------------------------------------------------------------------
\* State of the tracker loop at tracking.rs:102-108 and download.rs:75-80.
TrackerInit ==
    /\ counter = [channel_announcements |-> 0,
                  channel_updates |-> 0,
                  channel_announcements_with_mismatched_scripts |-> 0,
                  channel_updates_without_htlc_max_msats |-> 0]
    /\ read_lock = FALSE
    /\ deliveries = 0
    /\ previous_announcement_count = 0
    /\ previous_update_count = 0
    /\ is_caught_up_with_gossip = FALSE
    /\ was_previously_caught_up_with_gossip = FALSE
    /\ new_message_count = 0
    /\ i = 0
    /\ now = 0
    /\ latest_new_gossip_time = 0
    /\ latest_catch_up_time = 0
    /\ needs_to_notify_persister = FALSE
    /\ stall_warning = FALSE
    /\ chan_len = 0
    /\ chan_closed = FALSE
    /\ primed_ticks = {}
    /\ quiet_ticks = {}
    /\ high_ticks = {}
    /\ caught_ticks = {}
    /\ warn_ticks = {}
    /\ sent_ticks = {}
    /\ failed_ticks = {}
    /\ delta_sum = 0

\* ------------------------------------------------------------------------
\* Startup of tracking.rs.

\* tracking.rs:73
PeerWarning(n, limit) == n <= limit

\* State at tracking.rs:68, before the peers are read.
ConnectInit ==
    /\ peers \in {1..n : n \in 0..MaxPeers}
    /\ assertion_limit \in 0..MaxLimit
    /\ first_outcome \in OutcomeLists(peers)
    /\ main_pc = "start"
    /\ connected_peer_count = 0
    /\ peer_warning = FALSE
    /\ handles = [p \in peers |-> "unspawned"]
    /\ task_pc = [p \in peers |-> "unspawned"]
    /\ is_first_iteration = [p \in peers |-> TRUE]
    /\ report = [p \in peers |-> "empty"]
    /\ reported = [p \in peers |-> 0]
    /\ gap = [p \in peers |-> "none"]
    /\ variant = "tracking"
    /\ TrackerInit

\* tracking.rs:69-83: the warning, then one connect_peer task per peer; each
\* connect_peer spawns its per-peer task (tracking.rs:169-172).
SpawnPeers ==
    /\ main_pc = "start"
    /\ peer_warning' = PeerWarning(Cardinality(peers), assertion_limit)
    /\ handles' = [p \in peers |-> "running"]
    /\ task_pc' = [p \in peers |-> "connecting"]
    /\ main_pc' = "joining"
    /\ UNCHANGED <<configVars, connected_peer_count, is_first_iteration, report,
                   reported, gap, trackerVars, routerVars, chanVars, histVars>>

\* ------------------------------------------------------------------------
\* connect_peer and its per-peer task.

\* tracking.rs:180, :188: an attempt is reported on the first pass only.
ReportsEveryAttempt(first) == TRUE
Reports(first) == first

\* tracking.rs:174-192: where the task is after connect_outbound returned: at
\* the disconnection future of a connected peer, or, after a failure, back at
\* the top of the loop.
NextWaitSleepsAfterRefusal(outcome) ==
    CASE outcome = "connected" -> "connected"
      [] outcome = "refused" -> "sleeping"
      [] OTHER -> "dead"
NextWait(outcome) ==
    CASE outcome = "connected" -> "connected"
      [] outcome = "refused" -> "connecting"
      [] OTHER -> "dead"

\* tracking.rs:174-192, one pass of the loop up to its next await: the outcome
\* of connect_outbound, the report of the first attempt, and where the task
\* waits next.  A failed attempt goes straight back to connect_outbound.  The
\* send of the report is unwrapped: it panics, and the task ends, when
\* connect_peer and its receiver are gone.
ConnectAttempt(p, outcome) ==
    /\ task_pc[p] = "connecting"
    /\ is_first_iteration[p] => outcome = first_outcome[p]
    /\ ~is_first_iteration[p] => outcome # "task_failed"
    /\ LET sends == outcome # "task_failed" /\ Reports(is_first_iteration[p])
           send_fails == sends /\ report[p] = "dropped"
       IN /\ task_pc' = [task_pc EXCEPT ![p] =
                 IF send_fails THEN "dead" ELSE NextWait(outcome)]
          /\ report' = [report EXCEPT ![p] =
                 CASE send_fails -> @
                   [] sends -> IF outcome = "connected" THEN "true" ELSE "false"
                   [] outcome = "task_failed" -> "closed"
                   [] OTHER -> @]
          /\ reported' = [reported EXCEPT ![p] = IF sends /\ ~send_fails THEN @ + 1 ELSE @]
          /\ gap' = [gap EXCEPT ![p] =
                 IF outcome = "refused" /\ ~send_fails THEN "immediate" ELSE "none"]
    /\ is_first_iteration' = [is_first_iteration EXCEPT ![p] =
           IF outcome = "refused" THEN FALSE ELSE @]
    /\ UNCHANGED <<configVars, startVars, trackerVars, routerVars, chanVars, histVars>>

\* tracking.rs:183-184: the disconnection future of a connected peer resolves.
Disconnect(p) ==
    /\ task_pc[p] = "connected"
    /\ task_pc' = [task_pc EXCEPT ![p] = "sleeping"]
    /\ UNCHANGED <<configVars, startVars, is_first_iteration, report, reported, gap,
                   trackerVars, routerVars, chanVars, histVars>>

\* tracking.rs:185-192: the 10 s sleep is over; back to connect_outbound.
Reconnect(p) ==
    /\ task_pc[p] = "sleeping"
    /\ task_pc' = [task_pc EXCEPT ![p] = "connecting"]
    /\ is_first_iteration' = [is_first_iteration EXCEPT ![p] = FALSE]
    /\ gap' = [gap EXCEPT ![p] = "slept"]
    /\ UNCHANGED <<configVars, startVars, report, reported,
                   trackerVars, routerVars, chanVars, histVars>>

\* tracking.rs:196-197: receiver.recv().await.unwrap() of connect_peer.  A
\* sender dropped without a value makes recv yield None and unwrap panic.
ConnectPeerReturn(p) ==
    /\ handles[p] = "running"
    /\ report[p] # "empty"
    /\ handles' = [handles EXCEPT ![p] =
           CASE report[p] = "true" -> "done_true"
             [] report[p] = "false" -> "done_false"
             [] OTHER -> "failed"]
    /\ report' = [report EXCEPT ![p] = IF @ = "closed" THEN @ ELSE "taken"]
    /\ UNCHANGED <<configVars, main_pc, connected_peer_count, peer_warning,
                   task_pc, is_first_iteration, reported, gap,
                   trackerVars, routerVars, chanVars, histVars>>

\* ------------------------------------------------------------------------
\* The aggregation loop of download_gossip.

Finished == {"done_true", "done_false", "failed"}

\* tracking.rs:86-88: the count after one join_next result.
CountAfterIgnoringFailures(count, result) == count + 1
CountAfter(count, result) == IF result = "done_true" THEN count + 1 ELSE count

\* tracking.rs:89: the early exit of the collection loop.
StopsCollectingNever(result, count, limit) == FALSE
StopsCollectingAtFirstSuccess(result, count, limit) == result = "done_true"
StopsCollecting(result, count, limit) == result = "done_true" /\ count >= limit

\* tracking.rs:85-94: join_next yields the result of a finished connect_peer.
JoinNext(p) ==
    /\ main_pc = "joining"
    /\ handles[p] \in Finished
    /\ LET count == CountAfter(connected_peer_count, handles[p]) IN
         /\ connected_peer_count' = count
         /\ main_pc' = IF StopsCollecting(handles[p], count, assertion_limit)
                       THEN "check" ELSE "joining"
    /\ handles' = [handles EXCEPT ![p] = "joined"]
    /\ UNCHANGED <<configVars, peer_warning, peerVars,
                   trackerVars, routerVars, chanVars, histVars>>

\* tracking.rs:85: join_next yields None, the JoinSet is empty.
JoinNone ==
    /\ main_pc = "joining"
    /\ \A p \in peers : handles[p] = "joined"
    /\ main_pc' = "check"
    /\ UNCHANGED <<configVars, connected_peer_count, peer_warning, handles, peerVars,
                   trackerVars, routerVars, chanVars, histVars>>

\* A panic unwinds download_gossip and drops the JoinSet of tracking.rs:70: a
\* connect_peer still waiting for its report is aborted, and its receiver goes
\* with it.
HandlesAfterDrop(h) == [p \in DOMAIN h |-> IF h[p] = "running" THEN "aborted" ELSE h[p]]
ReportAfterDrop(h, r) ==
    [p \in DOMAIN r |-> IF h[p] = "running" /\ r[p] = "empty" THEN "dropped" ELSE r[p]]

\* tracking.rs:96
NoPeerConnectedNever(count) == FALSE
NoPeerConnected(count) == count < 1

\* tracking.rs:96-108: panic, or enter the polling loop.
ZeroPeersCheck ==
    /\ main_pc = "check"
    /\ IF NoPeerConnected(connected_peer_count)
       THEN /\ main_pc' = "panicked"
            /\ handles' = HandlesAfterDrop(handles)
            /\ report' = ReportAfterDrop(handles, report)
       ELSE /\ main_pc' = "sleep"
            /\ UNCHANGED <<handles, report>>
    /\ UNCHANGED <<configVars, connected_peer_count, peer_warning,
                   task_pc, is_first_iteration, reported, gap,
                   trackerVars, routerVars, chanVars, histVars>>

NextConnect ==
    \/ SpawnPeers
    \/ \E p \in peers, outcome \in FirstOutcomes : ConnectAttempt(p, outcome)
    \/ \E p \in peers : Disconnect(p)
    \/ \E p \in peers : Reconnect(p)
    \/ \E p \in peers : ConnectPeerReturn(p)
    \/ \E p \in peers : JoinNext(p)
    \/ JoinNone
    \/ ZeroPeersCheck

SpecConnect == ConnectInit /\ [][NextConnect]_vars

\* ------------------------------------------------------------------------
\* The polling loop: tracking.rs:110-164 and download.rs:82-137.

\* tracking.rs:117, download.rs:93.  The counts are u64; the model's counts stay
\* far below 2^64, so the sum is exact.
TotalMessageCount(c) == c.channel_announcements + c.channel_updates

\* tracking.rs:118, download.rs:94.  A u64 subtraction: it is exact as long as
\* the counter never falls below the previous snapshot.
NewMessageCount(total, prev_ann, prev_upd) == total - prev_ann - prev_upd

\* tracking.rs:122
CaughtUpOnCurrentCounts(delta, prev_ann, prev_upd, c) ==
    delta < NewMessageThreshold /\ c.channel_announcements > 0 /\ c.channel_updates > 0
CaughtUpInclusive(delta, prev_ann, prev_upd, c) ==
    delta <= NewMessageThreshold /\ prev_ann > 0 /\ prev_upd > 0
CaughtUp(delta, prev_ann, prev_upd, c) ==
    delta < NewMessageThreshold /\ prev_ann > 0 /\ prev_upd > 0

\* download.rs:98
DownloadCaughtUp(delta, prev_ann, prev_upd, c) ==
    /\ c.channel_announcements = prev_ann
    /\ c.channel_updates = prev_upd
    /\ prev_ann > 0
    /\ prev_upd > 0

\* tracking.rs:144, download.rs:112
JustCaughtUpLevel(is, was) == is
JustCaughtUpEitherEdge(is, was) == is # was
JustCaughtUpOnce(is, was) == is /\ ~was /\ sent_ticks = {}
JustCaughtUp(is, was) == is /\ ~was

\* Duration::as_secs of a duration in milliseconds
AsSecsRoundedUp(ms) == (ms + MillisPerSec - 1) \div MillisPerSec
AsSecs(ms) == ms \div MillisPerSec

\* tracking.rs:151-152, download.rs:121-122
StallWarningOncePerStall(elapsed, warned) == AsSecs(elapsed) > StallWindowSecs /\ ~warned
StallWarning(elapsed, warned) == AsSecs(elapsed) > StallWindowSecs

\* The history of the run: what iteration n saw and did.
Record(n, delta, is, warned, notify) ==
    /\ primed_ticks' = IF previous_announcement_count > 0 /\ previous_update_count > 0
                       THEN primed_ticks \cup {n} ELSE primed_ticks
    /\ quiet_ticks' = IF delta = 0 THEN quiet_ticks \cup {n} ELSE quiet_ticks
    /\ high_ticks' = IF delta >= NewMessageThreshold THEN high_ticks \cup {n} ELSE high_ticks
    /\ caught_ticks' = IF is THEN caught_ticks \cup {n} ELSE caught_ticks
    /\ warn_ticks' = IF warned THEN warn_ticks \cup {n} ELSE warn_ticks
    /\ sent_ticks' = IF notify THEN sent_ticks \cup {n} ELSE sent_ticks
    /\ delta_sum' = delta_sum + delta
    /\ UNCHANGED failed_ticks

\* tracking.rs:115-158, download.rs:91-128: the guard of router.counter.read()
\* is immutable, the block leaves the counter as it read it.
CounterAfterTickReset(c) == [f \in DOMAIN c |-> 0]
CounterAfterTick(c) == c

\* tracking.rs:158, download.rs:128: the block that holds the read guard ends
\* before the send of the completion event is awaited.
LockHeldAcrossSend(notify) == notify
LockHeldAtAwait(notify) == FALSE

\* tracking.rs:110-162: one iteration of the loop, from the sleep to its next
\* await: the sleep of the next iteration, or the send of the completion event
\* (the flag is cleared at :161, before the send).  d is the time since the
\* last tick.
Tick(d) ==
    /\ main_pc = "sleep"
    /\ variant = "tracking"
    /\ ~read_lock
    /\ i < MaxTicks
    /\ LET total == TotalMessageCount(counter)
           delta == NewMessageCount(total, previous_announcement_count, previous_update_count)
           is == CaughtUp(delta, previous_announcement_count, previous_update_count, counter)
           was == is_caught_up_with_gossip
           latest == IF delta > 0 THEN now + d ELSE latest_new_gossip_time
           notify == IF JustCaughtUp(is, was) THEN TRUE ELSE needs_to_notify_persister
       IN /\ i' = i + 1
          /\ now' = now + d
          /\ new_message_count' = delta
          /\ was_previously_caught_up_with_gossip' = was
          /\ is_caught_up_with_gossip' = is
          /\ latest_new_gossip_time' = latest
          /\ needs_to_notify_persister' = FALSE
          /\ stall_warning' = StallWarning((now + d) - latest, stall_warning)
          /\ previous_announcement_count' = counter.channel_announcements
          /\ previous_update_count' = counter.channel_updates
          /\ main_pc' = IF notify THEN "send" ELSE "sleep"
          /\ counter' = CounterAfterTick(counter)
          /\ read_lock' = LockHeldAtAwait(notify)
          /\ Record(i + 1, delta, is, StallWarning((now + d) - latest, stall_warning), notify)
    /\ UNCHANGED <<configVars, connected_peer_count, peer_warning, handles, peerVars,
                   variant, latest_catch_up_time, deliveries, chanVars>>

\* tracking.rs:162: completion_sender.send(()).await.unwrap() resolves.  The
\* send waits while the channel is full and fails once the receiver is gone;
\* the unwrap of the failure is a panic of download_gossip.
Send ==
    /\ main_pc = "send"
    /\ variant = "tracking"
    /\ chan_closed \/ chan_len < ChannelCapacity
    /\ IF chan_closed
       THEN /\ main_pc' = "panicked"
            /\ failed_ticks' = failed_ticks \cup {i}
            /\ handles' = HandlesAfterDrop(handles)
            /\ report' = ReportAfterDrop(handles, report)
            /\ UNCHANGED chan_len
       ELSE /\ main_pc' = "sleep"
            /\ chan_len' = chan_len + 1
            /\ UNCHANGED <<failed_ticks, handles, report>>
    /\ read_lock' = FALSE
    /\ UNCHANGED <<configVars, connected_peer_count, peer_warning,
                   task_pc, is_first_iteration, reported, gap,
                   trackerVars, counter, deliveries, chan_closed,
                   primed_ticks, quiet_ticks, high_ticks, caught_ticks, warn_ticks,
                   sent_ticks, delta_sum>>

\* download.rs:82-131: one iteration, from the sleep to its next await.
DownloadTick(d) ==
    /\ main_pc = "sleep"
    /\ variant = "download"
    /\ ~read_lock
    /\ i < MaxTicks
    /\ LET total == TotalMessageCount(counter)
           delta == NewMessageCount(total, previous_announcement_count, previous_update_count)
           is == DownloadCaughtUp(delta, previous_announcement_count, previous_update_count, counter)
           was == is_caught_up_with_gossip
           notify == JustCaughtUp(is, was)
           latest == IF notify THEN now + d ELSE latest_catch_up_time
       IN /\ i' = i + 1
          /\ now' = now + d
          /\ new_message_count' = delta
          /\ was_previously_caught_up_with_gossip' = was
          /\ is_caught_up_with_gossip' = is
          /\ latest_catch_up_time' = latest
          /\ needs_to_notify_persister' = FALSE
          /\ stall_warning' = StallWarning((now + d) - latest, stall_warning)
          /\ previous_announcement_count' = counter.channel_announcements
          /\ previous_update_count' = counter.channel_updates
          /\ main_pc' = IF notify THEN "send" ELSE "sleep"
          /\ counter' = CounterAfterTick(counter)
          /\ read_lock' = LockHeldAtAwait(notify)
          /\ Record(i + 1, delta, is, StallWarning((now + d) - latest, stall_warning), notify)
    /\ UNCHANGED <<configVars, connected_peer_count, peer_warning, handles, peerVars,
                   variant, latest_new_gossip_time, deliveries, chanVars>>

\* download.rs:132-135: persistence_sender.send(..).await resolves; its result
\* is dropped.
DownloadSend ==
    /\ main_pc = "send"
    /\ variant = "download"
    /\ chan_closed \/ chan_len < ChannelCapacity
    /\ main_pc' = "sleep"
    /\ chan_len' = IF chan_closed THEN chan_len ELSE chan_len + 1
    /\ failed_ticks' = IF chan_closed THEN failed_ticks \cup {i} ELSE failed_ticks
    /\ read_lock' = FALSE
    /\ UNCHANGED <<configVars, connected_peer_count, peer_warning, handles, peerVars,
                   trackerVars, counter, deliveries, chan_closed,
                   primed_ticks, quiet_ticks, high_ticks, caught_ticks, warn_ticks,
                   sent_ticks, delta_sum>>

\* ------------------------------------------------------------------------
\* The collaborators of the loop: the router that owns the counter and the
\* consumer of the completion channel.

Kinds == {"channel_announcement", "channel_update"}

\* GossipRouter accepts n messages of one kind, one increment under the write
\* lock each; no tick comes between them.  The write lock waits for a reader.
\* Flagged messages (an announcement whose script does not match, an update
\* without htlc_maximum_msat) are counted in their own field as well.  A run
\* has at most limit bursts.
RouterHandle(kind, n, flagged, limit) ==
    /\ main_pc # "panicked"
    /\ ~read_lock
    /\ deliveries < limit
    /\ deliveries' = deliveries + 1
    /\ LET m == IF flagged THEN n ELSE 0 IN
         counter' = IF kind = "channel_announcement"
                    THEN [counter EXCEPT !.channel_announcements = @ + n,
                                         !.channel_announcements_with_mismatched_scripts = @ + m]
                    ELSE [counter EXCEPT !.channel_updates = @ + n,
                                         !.channel_updates_without_htlc_max_msats = @ + m]
    /\ UNCHANGED <<configVars, startVars, peerVars, trackerVars, read_lock, chanVars, histVars>>

\* The consumer takes an event from the completion channel.
ConsumerRecv ==
    /\ chan_len > 0
    /\ chan_len' = chan_len - 1
    /\ UNCHANGED <<configVars, startVars, peerVars, trackerVars, routerVars,
                   chan_closed, histVars>>

\* The consumer drops its receiver.
ConsumerClose ==
    /\ ~chan_closed
    /\ chan_closed' = TRUE
    /\ UNCHANGED <<configVars, startVars, peerVars, trackerVars, routerVars,
                   chan_len, histVars>>

\* State at tracking.rs:110 (one peer, connected) and at download.rs:82.
TrackerStart ==
    /\ peers = {1}
    /\ assertion_limit = 1
    /\ first_outcome = [p \in {1} |-> "connected"]
    /\ main_pc = "sleep"
    /\ connected_peer_count = 1
    /\ peer_warning = TRUE
    /\ handles = [p \in {1} |-> "joined"]
    /\ task_pc = [p \in {1} |-> "connected"]
    /\ is_first_iteration = [p \in {1} |-> TRUE]
    /\ report = [p \in {1} |-> "taken"]
    /\ reported = [p \in {1} |-> 1]
    /\ gap = [p \in {1} |-> "none"]
    /\ variant \in {"tracking", "download"}
    /\ TrackerInit

SleepMillis == SleepSecs * MillisPerSec

\* Sizes of the bursts the router handles between two steps of the loop.
Bursts == {1, NewMessageThreshold - 1, NewMessageThreshold}

\* Every tick comes as its sleep ends.
NextTracker ==
    \/ Tick(SleepMillis)
    \/ Send
    \/ DownloadTick(SleepMillis)
    \/ DownloadSend
    \/ \E kind \in Kinds, n \in Bursts : RouterHandle(kind, n, FALSE, MaxDeliveries)
    \/ ConsumerRecv
    \/ ConsumerClose

SpecTracker == TrackerStart /\ [][NextTracker]_vars

\* A tick comes when its sleep ends or later: the task was not scheduled, or
\* the send of the iteration before waited for the consumer.
TickDelays ==
    {SleepMillis,
     StallWindowSecs * MillisPerSec - SleepMillis,
     StallWindowSecs * MillisPerSec - SleepMillis + MillisPerSec \div 2}

NextStall ==
    \/ \E d \in TickDelays : Tick(d)
    \/ Send
    \/ \E d \in TickDelays : DownloadTick(d)
    \/ DownloadSend
    \/ \E kind \in Kinds : RouterHandle(kind, 1, FALSE, MaxDeliveries)
    \/ ConsumerRecv
    \/ ConsumerClose

SpecStall == TrackerStart /\ [][NextStall]_vars

\* The router counts flagged messages too; every tick comes as its sleep ends.
NextCounter ==
    \/ Tick(SleepMillis)
    \/ Send
    \/ DownloadTick(SleepMillis)
    \/ DownloadSend
    \/ \E kind \in Kinds, flagged \in BOOLEAN : RouterHandle(kind, 1, flagged, MaxDeliveries)
    \/ ConsumerRecv
    \/ ConsumerClose

SpecCounter == TrackerStart /\ [][NextCounter]_vars

\* The loop of tracking.rs beside a consumer that has stalled: it neither takes
\* an event from the completion channel nor drops its receiver.
StalledStart ==
    /\ TrackerStart
    /\ variant = "tracking"

StalledBursts == {1, NewMessageThreshold}

NextBackpressure ==
    \/ Tick(SleepMillis)
    \/ Send
    \/ \E kind \in Kinds, n \in StalledBursts :
          RouterHandle(kind, n, FALSE, MaxStalledDeliveries)

SpecBackpressure == StalledStart /\ [][NextBackpressure]_vars

\* download_gossip of tracking.rs from its first line on: two peers, the
\* startup, then the polling loop with the per-peer tasks running beside it.
RunStart ==
    /\ ConnectInit
    /\ peers = 1..2

NextRun ==
    \/ NextConnect
    \/ Tick(SleepMillis)
    \/ Send
    \/ \E kind \in Kinds : RouterHandle(kind, 1, FALSE, MaxDeliveries)
    \/ ConsumerRecv
    \/ ConsumerClose

SpecRun == RunStart /\ [][NextRun]_vars

\* ========================================================================
\* Properties of the startup (SpecConnect).

Min(a, b) == IF a <= b THEN a ELSE b
Max(a, b) == IF a >= b THEN a ELSE b

Collecting == {"start", "joining"}
Aggregated == main_pc \notin Collecting
PastZeroPeersCheck == main_pc \notin (Collecting \cup {"check"})
InTrackerLoop == main_pc \in {"sleep", "send"}
Successes == {p \in peers : first_outcome[p] = "connected"}
AllCollected == \A p \in peers : handles[p] = "joined"

\* C3: when no configured peer's first attempt succeeds (each reports false or
\* its task fails), download_gossip never enters the polling loop: the
\* zero-peers check finds a count of 0 and the only way past it is the panic.
C3_ZeroSuccessesFatal ==
    Successes = {} =>
        /\ connected_peer_count = 0
        /\ ~InTrackerLoop
        /\ PastZeroPeersCheck => main_pc = "panicked"

C3_Witness ==
    /\ Successes = {}
    /\ Cardinality(peers) >= 2
    /\ \E p \in peers : first_outcome[p] = "task_failed"
    /\ \E p \in peers : first_outcome[p] = "refused"
    /\ main_pc = "panicked"

\* C7: with exactly one successful first attempt among the N >= 1 peers, for
\* every threshold and every arrival order, download_gossip does not panic, and
\* past the zero-peers check it is in the polling loop with a count of 1.
C7_OneSuccessProceeds ==
    Cardinality(Successes) = 1 =>
        /\ main_pc # "panicked"
        /\ connected_peer_count <= 1
        /\ Aggregated => connected_peer_count = 1
        /\ PastZeroPeersCheck => InTrackerLoop

C7_Witness ==
    /\ Cardinality(Successes) = 1
    /\ Cardinality(peers) >= 3
    /\ assertion_limit >= 2
    /\ AllCollected
    /\ InTrackerLoop
    /\ connected_peer_count = 1

\* C8 as claimed: the aggregation is over only when the first-attempt result
\* of every configured peer has been collected.
C8_Original == Aggregated => AllCollected

\* C8 as amended: the aggregation is over only when every first-attempt result
\* has been collected or the count of successes has reached the assertion
\* threshold (with at least one success).  The reconnect loops are not waited
\* for: C8_Witness is a state in the polling loop with one per-peer task in its
\* reconnect sleep and another still on its first attempt.
C8_CollectsAllOrReachesLimit ==
    Aggregated =>
        \/ AllCollected
        \/ connected_peer_count >= 1 /\ connected_peer_count >= assertion_limit

C8_Witness ==
    /\ InTrackerLoop
    /\ connected_peer_count >= 2
    /\ \E p \in peers : handles[p] = "running" /\ task_pc[p] = "connecting"
    /\ \E p \in peers : handles[p] = "joined" /\ task_pc[p] = "sleeping"

\* C9 as claimed: after the aggregation connected_peer_count is the number of
\* peers whose first attempt succeeded, whatever the threshold.
C9_Original == Aggregated => connected_peer_count = Cardinality(Successes)

\* C9 as amended: after the aggregation connected_peer_count is the number of
\* successful first attempts capped at the threshold (at 1 for a threshold of
\* 0), since the collection stops once the count reaches the threshold.  The
\* threshold does not change whether startup proceeds: past the zero-peers
\* check the function has panicked exactly when no first attempt succeeded.
C9_CountCappedAtLimit ==
    /\ Aggregated =>
          connected_peer_count = Min(Cardinality(Successes), Max(assertion_limit, 1))
    /\ PastZeroPeersCheck => (main_pc = "panicked" <=> Successes = {})

C9_Witness ==
    /\ InTrackerLoop
    /\ assertion_limit >= 2
    /\ Cardinality(Successes) > assertion_limit
    /\ connected_peer_count = assertion_limit

\* C10 as claimed: the threshold warning is written at startup exactly when the
\* number of configured peers is strictly smaller than the threshold.
C10_WarningIffFewerPeers ==
    main_pc # "start" => (peer_warning <=> Cardinality(peers) < assertion_limit)

\* ========================================================================
\* Properties of the polling loop (SpecTracker, SpecStall).

Tracking == variant = "tracking"
Edges == {n \in caught_ticks : (n - 1) \notin caught_ticks}

\* C1: a completion event is sent on an iteration exactly when caught_up is
\* true on it and was false on the iteration before (or it is the first); so
\* no event is sent on the second of two consecutive caught-up iterations.
C1_EdgeTriggered ==
    Tracking =>
        /\ sent_ticks = Edges
        /\ main_pc = "send" => i \in Edges
        /\ \A n \in sent_ticks : (n - 1) \notin sent_ticks
        /\ (i >= 1 /\ is_caught_up_with_gossip /\ ~was_previously_caught_up_with_gossip)
              => i \in sent_ticks

C1_Witness ==
    /\ Tracking
    /\ \E n \in sent_ticks : (n + 1) \in caught_ticks /\ (n + 2) \in caught_ticks
    /\ Cardinality(sent_ticks) = 1

\* C4: an iteration that begins with previous_announcement_count = 0 or
\* previous_update_count = 0 is never caught up, in either file, whatever its
\* delta; so it sends no completion event, and neither does the first.
C4_NotCaughtUpBeforeBothSeen ==
    /\ caught_ticks \subseteq primed_ticks
    /\ sent_ticks \subseteq primed_ticks
    /\ 1 \notin caught_ticks \cup sent_ticks
    /\ (i >= 1 /\ i \notin primed_ticks) =>
          (~is_caught_up_with_gossip /\ main_pc # "send")

C4_Witness ==
    /\ Tracking
    /\ i = 2
    /\ 2 \notin primed_ticks
    /\ new_message_count > 0
    /\ new_message_count < NewMessageThreshold
    /\ counter.channel_announcements > 0
    /\ counter.channel_updates > 0

\* C5 as claimed: after an iteration, caught_up is true exactly when its delta
\* is below 20 and the snapshot read on it (now stored as previous_*) has
\* channel_announcements > 0 and channel_updates > 0.
C5_Original ==
    (Tracking /\ i >= 1) =>
        (is_caught_up_with_gossip <=>
            /\ new_message_count < NewMessageThreshold
            /\ previous_announcement_count > 0
            /\ previous_update_count > 0)

\* C5 as amended: on every iteration caught_up is true exactly when the delta
\* is below 20 and the snapshot stored by the iteration before has
\* channel_announcements > 0 and channel_updates > 0; the delta is the total
\* read now less that stored snapshot.
C5_CaughtUpOnPreviousCounts ==
    [][(Tracking /\ i' = i + 1) =>
          /\ new_message_count' =
                counter.channel_announcements + counter.channel_updates
                  - previous_announcement_count - previous_update_count
          /\ is_caught_up_with_gossip' <=>
                /\ new_message_count' < NewMessageThreshold
                /\ previous_announcement_count > 0
                /\ previous_update_count > 0]_vars

C5_Witness ==
    /\ Tracking
    /\ is_caught_up_with_gossip
    /\ new_message_count = NewMessageThreshold - 1

\* The runs of C6 for a given k, once they have two iterations: the deltas are
\* high before iteration k and low from it on, and every iteration from the
\* second begins with both previous counts > 0.
HighThenLow(k) ==
    /\ Tracking
    /\ i >= 2
    /\ k <= i
    /\ high_ticks = 1..(k - 1)
    /\ 2..i \subseteq primed_ticks

\* C6 as claimed: for every k >= 1, caught_up is first true on iteration k and
\* the one completion event of the run is sent on iteration k.
C6_Original ==
    \A k \in 1..i :
        HighThenLow(k) => (caught_ticks = k..i /\ sent_ticks = {k})

\* C6 as amended: the same for every k >= 2.  With k = 1 the first iteration
\* begins with previous counts of 0 and is never caught up.
C6_OneEventAtTickK ==
    \A k \in 2..i :
        HighThenLow(k) => (caught_ticks = k..i /\ sent_ticks = {k})

C6_Witness ==
    /\ HighThenLow(3)
    /\ i >= 4
    /\ sent_ticks = {3}
    /\ caught_ticks = 3..i

\* C2 as claimed: a stall gets one watchdog warning: between two iterations
\* that wrote the warning there is one with delta > 0.
C2_Original ==
    Tracking =>
        \A n \in warn_ticks, m \in warn_ticks :
            n < m => \E k \in (n + 1)..m : k \notin quiet_ticks

\* C2 as amended: the warning is written on every iteration of a stall on which
\* more than 600 whole seconds have passed since the last iteration with
\* delta > 0 (or the start): once written it is written again on each later
\* iteration of the same stall, and an iteration with delta > 0 writes none.
C2_WarningEveryStalledTick ==
    Tracking =>
        /\ warn_ticks \subseteq quiet_ticks
        /\ \A n \in warn_ticks : (n + 1 <= i /\ (n + 1) \in quiet_ticks) => (n + 1) \in warn_ticks
        /\ i >= 1 => (i \in warn_ticks <=>
                        AsSecs(now - latest_new_gossip_time) > StallWindowSecs)

C2_Witness ==
    /\ Tracking
    /\ \E n \in warn_ticks : (n + 1) \in warn_ticks /\ 1 \notin quiet_ticks

\* ------------------------------------------------------------------------
\* The per-peer task of connect_peer.

\* connect_peer has returned for the peer (a joined handle of a task that
\* failed before its report carried a panic, not a return value).
Returned(p) ==
    \/ handles[p] \in {"done_true", "done_false"}
    \/ handles[p] = "joined" /\ first_outcome[p] # "task_failed"

\* C11 as stated: every retry of a per-peer task is preceded by the fixed
\* 10-second sleep: no task is in connect_outbound again straight after a
\* failed attempt, without having slept since.
C11_Original ==
    \A p \in peers : task_pc[p] = "connecting" => gap[p] # "immediate"

\* C11, amended: the 10-second sleep comes after a disconnection and nowhere
\* else.  A connected task leaves that state only into the sleep, and the
\* attempt after the sleep is a delayed one; a task enters the sleep only from
\* a connection; a task that stays in connect_outbound over a step has failed
\* an attempt and is retrying at once.
C11_SleepAfterDisconnectionOnly ==
    [][\A p \in peers :
         /\ (task_pc[p] = "connected" /\ task_pc'[p] # "connected") =>
               task_pc'[p] = "sleeping"
         /\ (task_pc[p] # "sleeping" /\ task_pc'[p] = "sleeping") =>
               task_pc[p] = "connected"
         /\ (task_pc[p] = "sleeping" /\ task_pc'[p] # "sleeping") =>
               task_pc'[p] = "connecting" /\ gap'[p] = "slept"
         /\ (task_pc[p] = "connecting" /\ gap'[p] # gap[p]) =>
               \/ task_pc'[p] = "connecting" /\ gap'[p] = "immediate"
               \/ task_pc'[p] \in {"connected", "dead"} /\ gap'[p] = "none"]_vars

\* One task retrying at once after a refusal, another back in connect_outbound
\* after a disconnection and the sleep.
C11_Witness ==
    \E p, q \in peers :
        /\ task_pc[p] = "connecting" /\ gap[p] = "immediate"
        /\ task_pc[q] = "connecting" /\ gap[q] = "slept"

\* C14: connect_peer returns true if and only if the first attempt to the peer
\* succeeded; the task sends exactly one boolean, for the first attempt only
\* (none while that attempt is pending, none for later attempts), and it is
\* still running once connect_peer has returned.
C14_ReturnsFirstAttempt ==
    \A p \in peers :
        /\ handles[p] = "done_true" => first_outcome[p] = "connected"
        /\ handles[p] = "done_false" => first_outcome[p] = "refused"
        /\ reported[p] <= 1
        /\ reported[p] = 1 => report[p] \in {"true", "false", "taken"}
        /\ (report[p] = "true") => first_outcome[p] = "connected"
        /\ (report[p] = "false") => first_outcome[p] = "refused"
        /\ Returned(p) =>
              /\ reported[p] = 1
              /\ report[p] = "taken"
              /\ task_pc[p] \in {"connecting", "connected", "sleeping"}

\* A peer that connected first, came back after a disconnection and was then
\* refused, and a peer refused first that connected later: both long after
\* connect_peer returned.
C14_Witness ==
    \E p, q \in peers :
        /\ handles[p] = "joined" /\ first_outcome[p] = "connected"
        /\ task_pc[p] = "connecting" /\ gap[p] = "immediate"
        /\ Returned(q) /\ first_outcome[q] = "refused"
        /\ task_pc[q] = "connected" /\ reported[q] = 1

\* C15: the per-peer task never terminates on its own: whatever its first
\* attempt came to, and whether or not its result was collected, a task whose
\* connect_outbound calls return is never at an end.
C15_TaskNeverStops ==
    \A p \in peers : first_outcome[p] # "task_failed" => task_pc[p] # "dead"

\* ------------------------------------------------------------------------
\* The completion event and its channel.

\* Iterations on which caught_up fell from true to false.
Dips == {n \in 2..i : (n - 1) \in caught_ticks /\ n \notin caught_ticks}

\* C12: download_gossip of tracking.rs panics on the zero-connected-peers
\* condition only: with one peer or more connected at startup, nothing that
\* happens later, the consumer closing the completion channel included, makes
\* download_gossip or a per-peer task panic or stop.
C12_OnlyZeroPeersFatal ==
    (Tracking /\ connected_peer_count >= 1) =>
        /\ main_pc # "panicked"
        /\ \A p \in peers : first_outcome[p] # "task_failed" => task_pc[p] # "dead"

\* C13: a failed send of the completion event leaves the tracker polling: after
\* an iteration whose send failed, the loop is at its sleep or at a later send.
C13_PollsAfterFailedSend ==
    (Tracking /\ failed_ticks # {}) => main_pc \in {"sleep", "send"}

\* C16: a true-to-false transition of caught_up sends no event and resets
\* nothing but the flag (the snapshot and the clock of the last new gossip
\* stay those of the iteration); and the number of completion events sent so
\* far is the number of false-to-true transitions so far, however many.
C16_OneEventPerUpEdge ==
    Tracking =>
        /\ Cardinality(sent_ticks) = Cardinality(Edges)
        /\ Dips \cap sent_ticks = {}
        /\ i \in Dips =>
              /\ main_pc = "sleep"
              /\ ~needs_to_notify_persister
              /\ ~is_caught_up_with_gossip /\ was_previously_caught_up_with_gossip
              /\ previous_announcement_count > 0 /\ previous_update_count > 0
              /\ latest_new_gossip_time = now

\* Two events in one run, with a dip between them.
C16_Witness ==
    /\ Tracking
    /\ Cardinality(sent_ticks) >= 2
    /\ \E n \in Dips : \E a, b \in sent_ticks : a < n /\ n < b

\* ------------------------------------------------------------------------
\* The watchdog.

\* Time from the last iteration that saw new messages (or from the start of
\* the tracker) to the latest iteration, in milliseconds.
SinceNewGossip == now - latest_new_gossip_time

\* C17 as stated: the warning is written on an iteration if and only if more
\* than 600 s have passed since the last iteration with delta > 0.
C17_Original ==
    (Tracking /\ i >= 1) =>
        (i \in warn_ticks <=> SinceNewGossip > StallWindowSecs * MillisPerSec)

\* C17, amended: the warning is written on an iteration if and only if 601 s
\* or more have passed since the last iteration with delta > 0 (or since the
\* start); an iteration with delta > 0 writes none; the warning leaves the
\* state of the tracker alone: the iteration sends an event exactly when it is
\* a false-to-true edge, warning or not.
C17_WarningAfterWholeSeconds ==
    (Tracking /\ i >= 1) =>
        /\ i \in warn_ticks <=> SinceNewGossip >= (StallWindowSecs + 1) * MillisPerSec
        /\ stall_warning <=> i \in warn_ticks
        /\ warn_ticks \subseteq quiet_ticks
        /\ \A n \in warn_ticks : n \in sent_ticks <=> n \in Edges

\* An iteration between 600 and 601 s after the last new gossip that wrote
\* nothing, and the warning on the iteration after it.
C17_Witness ==
    /\ Tracking
    /\ i \in warn_ticks
    /\ (i - 1) \in quiet_ticks \ warn_ticks
    /\ SinceNewGossip = (StallWindowSecs + 1) * MillisPerSec + SleepMillis - MillisPerSec \div 2

\* C18: in download.rs the warning is written only when no iteration of the
\* last 600 s saw new messages: a run whose every iteration saw new messages
\* has no warning.
C18_NoWarningWhileGossipFlows ==
    (variant = "download" /\ quiet_ticks = {}) => warn_ticks = {}

\* ------------------------------------------------------------------------
\* The counter and its lock.

CounterFields == DOMAIN counter
TrackerStep == i' # i \/ main_pc' # main_pc
PreviousTotal == previous_announcement_count + previous_update_count

\* C19: no step of the tracker changes any of the four fields of the counter,
\* no step at all lowers one, and the counts the tracker has read never go
\* down from one iteration to the next.
C19_TickLeavesCounter ==
    [][/\ TrackerStep => counter' = counter
       /\ \A f \in CounterFields : counter'[f] >= counter[f]
       /\ previous_announcement_count' >= previous_announcement_count
       /\ previous_update_count' >= previous_update_count]_vars

\* Iterations and a completion event behind, all four fields counted up.
C19_Witness ==
    /\ i >= 2
    /\ sent_ticks # {}
    /\ \A f \in CounterFields : counter[f] > 0
    /\ previous_announcement_count > 0 /\ previous_update_count > 0

\* C20: each iteration keeps the two counts of one read as its snapshot, so
\* the u64 subtraction of the iteration and of the next one cannot underflow,
\* and the deltas of all iterations so far add up to the total of the latest
\* read; the read lock is not held while the send of the completion event
\* waits, so the router can write the counter then.
C20_SnapshotDeltas ==
    /\ new_message_count >= 0
    /\ previous_announcement_count <= counter.channel_announcements
    /\ previous_update_count <= counter.channel_updates
    /\ NewMessageCount(TotalMessageCount(counter),
                       previous_announcement_count, previous_update_count) >= 0
    /\ delta_sum = PreviousTotal
    /\ ~read_lock
    /\ (main_pc = "send" /\ deliveries < MaxStalledDeliveries) =>
          ENABLED RouterHandle("channel_update", 1, FALSE, MaxStalledDeliveries)

\* The send of a second event waits on the full channel, and the router has
\* counted a message since the iteration that called it.
C20_Witness ==
    /\ main_pc = "send"
    /\ chan_len = ChannelCapacity
    /\ ~chan_closed
    /\ TotalMessageCount(counter) > PreviousTotal
    /\ delta_sum >= NewMessageThreshold

============================================================================
